---- MODULE Spec2Model ----
(***************************************************************************)
(* Ledger bot: command handlers (src/src/main.rs) running concurrently     *)
(* over one SQLite store (src/src/db.rs).  Every store round trip          *)
(* (one SQL statement) is one atomic step; the code between two round      *)
(* trips is local to the handler and belongs to the step before it; so     *)
(* does the reply (bot.send_message), which touches no shared state.       *)
(***************************************************************************)
EXTENDS Integers, Sequences, FiniteSets, TLC

\* ---------------------------------------------------------------- bounds
NTasks == 2        \* handler tasks that teloxide runs concurrently
MaxCmds == 2       \* messages received in one behaviour

Tasks == 1..NTasks
TgIds == {1, 2}    \* Telegram user ids (msg.from().id)
NoUuid == 0        \* "no id yet"; Uuid::new_v4 values are 1, 2, ...
UuidSpace == 0..(MaxCmds + 2)

\* ------------------------------------------------------------------ text
\* A text is a sequence of one-character strings.
Digits == {"0", "1", "2", "3", "4", "5", "6", "7", "8", "9"}
IsDigit(c) == c \in Digits
IsSpace(c) == c = " "

DigitVal(c) ==
  CASE c = "0" -> 0 [] c = "1" -> 1 [] c = "2" -> 2 [] c = "3" -> 3
    [] c = "4" -> 4 [] c = "5" -> 5 [] c = "6" -> 6 [] c = "7" -> 7
    [] c = "8" -> 8 [] c = "9" -> 9

RECURSIVE TrimStart(_)
TrimStart(s) ==
  IF s # <<>> /\ IsSpace(Head(s)) THEN TrimStart(Tail(s)) ELSE s

RECURSIVE TrimEnd(_)
TrimEnd(s) ==
  IF s # <<>> /\ IsSpace(s[Len(s)]) THEN TrimEnd(SubSeq(s, 1, Len(s) - 1)) ELSE s

Trim(s) == TrimEnd(TrimStart(s))

\* Length of the longest run of digits of s that starts at position i.
RECURSIVE DigitRun(_, _)
DigitRun(s, i) ==
  IF i <= Len(s) /\ IsDigit(s[i]) THEN 1 + DigitRun(s, i + 1) ELSE 0

\* i64::MAX, scaled down to 16 bits: TLC's integers then hold every
\* intermediate value of the conversion.
I64Max == 32767

\* str::parse::<i64> on a text of digits: the value, or -1 for Err.
RECURSIVE ParseDigits(_, _)
ParseDigits(s, acc) ==
  IF s = <<>> THEN acc
  ELSE LET v == acc * 10 + DigitVal(Head(s))
       IN  IF v > I64Max THEN -1 ELSE ParseDigits(Tail(s), v)

parse_i64(s) ==
  IF s = <<>> \/ \E i \in 1..Len(s) : ~IsDigit(s[i]) THEN -1
  ELSE ParseDigits(s, 0)

Err(e) == [ok |-> FALSE, err |-> e]

\* Position of the first "." of s, 0 when there is none.
RECURSIVE FindDot(_, _)
FindDot(s, i) ==
  IF i > Len(s) THEN 0 ELSE IF s[i] = "." THEN i ELSE FindDot(s, i + 1)

CountDots(s) == Cardinality({i \in 1..Len(s) : s[i] = "."})

RECURSIVE TrimStartSigns(_)
TrimStartSigns(s) ==
  IF s # <<>> /\ Head(s) \in {"+", "-"} THEN TrimStartSigns(Tail(s)) ELSE s

\* The i64 that wrapping arithmetic (a build without overflow checks) leaves
\* for the exact value v.
Wrap(v) == ((v + I64Max + 1) % (2 * (I64Max + 1))) - (I64Max + 1)

\* `whole * 100`, `+ frac` and the negation are plain i64 arithmetic: where
\* the exact value leaves the i64 range, a build with overflow checks panics
\* and one without them goes on with the wrapped value.  The result carries
\* both: cents is the wrapped value, overflow tells that a check would panic.
decimal_to_cents(str) ==
  LET neg == str # <<>> /\ Head(str) = "-"
      s == TrimStartSigns(str)
      d == FindDot(s, 1)
      Signed(v) == LET c == Wrap(v)
                   IN  [ok |-> TRUE,
                        cents |-> IF neg THEN Wrap(-c) ELSE c,
                        overflow |-> v > I64Max \/ (neg /\ c = -(I64Max + 1))]
  IN  IF CountDots(s) = 0
      THEN LET w == parse_i64(s)
           IN  IF w < 0 THEN Err("ParseIntError") ELSE Signed(w * 100)
      ELSE IF CountDots(s) = 1
      THEN LET whole == SubSeq(s, 1, d - 1)
               frac == SubSeq(s, d + 1, Len(s))
               f == IF Len(frac) = 1 THEN frac \o <<"0">> ELSE frac
           IN  IF Len(f) > 2 THEN Err("Too many decimal places")
               ELSE LET w == parse_i64(whole)
                        fv == parse_i64(f)
                    IN  IF w < 0 \/ fv < 0 THEN Err("ParseIntError")
                        ELSE Signed(w * 100 + fv)
      ELSE Err("Invalid number")

ReplaceComma(s) == [i \in 1..Len(s) |-> IF s[i] = "," THEN "." ELSE s[i]]

\* The regex ^\s*([+-]?\d+(?:[.,]\d{1,2})?)\s*(.*)$ : every quantifier is
\* greedy and the trailing (.*) accepts any rest, so the first (longest)
\* choice of each group is the match.
parse_amount_and_reason(input, allow_signed) ==
  LET s == Trim(input)
      signLen == IF allow_signed /\ s # <<>> /\ s[1] \in {"+", "-"} THEN 1 ELSE 0
      nDig == DigitRun(s, signLen + 1)
      p == signLen + nDig + 1
      nFrac == IF p <= Len(s) /\ s[p] \in {".", ","}
               THEN (IF DigitRun(s, p + 1) >= 2 THEN 2 ELSE DigitRun(s, p + 1))
               ELSE 0
      amtLen == signLen + nDig + (IF nFrac > 0 THEN 1 + nFrac ELSE 0)
      amount_str == ReplaceComma(SubSeq(s, 1, amtLen))
      rest == Trim(SubSeq(s, amtLen + 1, Len(s)))
      c == decimal_to_cents(amount_str)
  IN  IF s = <<>> THEN Err("Missing amount")
      ELSE IF nDig = 0 THEN Err("Bad amount format")
      ELSE IF ~c.ok THEN c
      ELSE [ok |-> TRUE, cents |-> c.cents, overflow |-> c.overflow, reason |-> rest]

\* ----------------------------------------------------------------- store
Abs(n) == IF n < 0 THEN -n ELSE n

\* SELECT id FROM users WHERE tg_user_id = ? : the matching rows.
SelectUser(U, tg_user_id) == {r \in U : r.tg_user_id = tg_user_id}

\* Mutant: the schema without UNIQUE on tg_user_id.
UniqueOk_PkOnly(U, id, tg_user_id) ==
  \A r \in U : r.id # id

\* users.id is PRIMARY KEY and users.tg_user_id is UNIQUE: the INSERT is
\* accepted only when neither value is already in the table.
UniqueOk(U, id, tg_user_id) ==
  \A r \in U : r.id # id /\ r.tg_user_id # tg_user_id

\* What a message tells about its sender besides the id: username,
\* first_name and last_name ("" for an absent Option).
Profiles == [tg_username : {"", "ann"}, first_name : {"A", "B"}, last_name : {""}]

\* The profile of the messages of Spec, whose senders do not rename.
DefaultProfile == [tg_username |-> "", first_name |-> "A", last_name |-> ""]

UserRow(id, tg_user_id, profile, now) ==
  [id |-> id, tg_user_id |-> tg_user_id, tg_username |-> profile.tg_username,
   first_name |-> profile.first_name, last_name |-> profile.last_name,
   created_at |-> now]

\* INSERT INTO users(id, tg_user_id, tg_username, first_name, last_name, created_at)
InsertUser(U, id, tg_user_id, profile, now) ==
  U \cup {UserRow(id, tg_user_id, profile, now)}

\* Mutant: the id of the last row is handed out again.
NextEntryId_Same(E) == IF E = <<>> THEN 1 ELSE E[Len(E)].id

\* id INTEGER PRIMARY KEY AUTOINCREMENT: one more than the largest id ever
\* used (rows are never deleted, so that is the number of rows).
NextEntryId(E) == Len(E) + 1

\* Mutant: the amount is stored without its sign.
add_entry_Abs(E, user_id, amount_cents, kind, reason) ==
  Append(E, [id |-> NextEntryId(E), user_id |-> user_id,
             amount_cents |-> Abs(amount_cents), kind |-> kind, reason |-> reason])

\* INSERT INTO entries(user_id, amount_cents, kind, reason, created_at)
add_entry(E, user_id, amount_cents, kind, reason) ==
  Append(E, [id |-> NextEntryId(E), user_id |-> user_id,
             amount_cents |-> amount_cents, kind |-> kind, reason |-> reason])

\* SUM(amount_cents) over the rows WHERE user_id = ?, NULL when no row matches.
RECURSIVE SumWhereUser(_, _)
SumWhereUser(E, user_id) ==
  IF E = <<>> THEN 0
  ELSE (IF Head(E).user_id = user_id THEN Head(E).amount_cents ELSE 0)
       + SumWhereUser(Tail(E), user_id)

\* Mutant: the SUM without its WHERE clause.
RECURSIVE total_cents_AllUsers(_, _)
total_cents_AllUsers(E, user_id) ==
  IF E = <<>> THEN 0
  ELSE Head(E).amount_cents + total_cents_AllUsers(Tail(E), user_id)

\* Mutant: the SUM skips the archive rows.
RECURSIVE total_cents_NoArchive(_, _)
total_cents_NoArchive(E, user_id) ==
  IF E = <<>> THEN 0
  ELSE (IF Head(E).user_id = user_id /\ Head(E).kind # "archive"
        THEN Head(E).amount_cents ELSE 0)
       + total_cents_NoArchive(Tail(E), user_id)

\* SELECT COALESCE(SUM(amount_cents),0) FROM entries WHERE user_id = ?
total_cents(E, user_id) ==
  IF \A i \in 1..Len(E) : E[i].user_id # user_id THEN 0
  ELSE SumWhereUser(E, user_id)

\* history_total(user): sum of |amount_cents| over the user's archive entries.
RECURSIVE history_total_cents(_, _)
history_total_cents(E, user_id) ==
  IF E = <<>> THEN 0
  ELSE (IF Head(E).user_id = user_id /\ Head(E).kind = "archive"
        THEN Abs(Head(E).amount_cents) ELSE 0)
       + history_total_cents(Tail(E), user_id)

\* archive(user_id) -> moved_cents: reads the balance and, in the same
\* transaction, appends the archive entry with amount_cents = -balance;
\* fails with NothingToArchive when the balance is 0.
archive_user_entries(E, user_id) ==
  LET bal == total_cents(E, user_id)
  IN  IF bal = 0
      THEN [ok |-> FALSE, err |-> "NothingToArchive", entries |-> E, moved |-> 0]
      ELSE [ok |-> TRUE, err |-> "",
            entries |-> add_entry(E, user_id, -bal, "archive", <<>>),
            moved |-> Abs(bal)]

\* Mutant: ORDER BY id ASC.
RECURSIVE last_entries_Asc(_, _, _)
last_entries_Asc(E, user_id, limit) ==
  IF E = <<>> \/ limit <= 0 THEN <<>>
  ELSE IF Head(E).user_id = user_id
       THEN <<Head(E)>> \o last_entries_Asc(Tail(E), user_id, limit - 1)
       ELSE last_entries_Asc(Tail(E), user_id, limit)

\* The rows the statement selects, in its order (struct Entry keeps the
\* columns amount_cents, kind, reason and created_at of each).
\* SELECT ... WHERE user_id = ? ORDER BY id DESC LIMIT ?
RECURSIVE last_entries(_, _, _)
last_entries(E, user_id, limit) ==
  IF E = <<>> \/ limit <= 0 THEN <<>>
  ELSE LET e == E[Len(E)]
           front == SubSeq(E, 1, Len(E) - 1)
       IN  IF e.user_id = user_id
           THEN <<e>> \o last_entries(front, user_id, limit - 1)
           ELSE last_entries(front, user_id, limit)

\* -------------------------------------------------------------- commands
\* Argument texts of /save, /adjust and /query.  /start and /help only run
\* ensure_user and reply, as a rejected /save does; they are left out.
SaveArgs == { <<"1">>, <<"0">>, <<"-", "1">> }
AdjustArgs == { <<"-", "1", " ", "r">>, <<"0">> }
QueryArgs == { <<"1">> }

Commands ==
     [name : {"Allinvoo"}, args : {<<>>}]
  \cup [name : {"Save"}, args : SaveArgs]
  \cup [name : {"Adjust"}, args : AdjustArgs]
  \cup [name : {"Query"}, args : QueryArgs]

\* args.trim().parse::<i64>().unwrap_or(10).clamp(1, 50); parse::<i64>
\* takes one leading sign.
QueryLimit(args) ==
  LET s == Trim(args)
      signed == s # <<>> /\ s[1] \in {"+", "-"}
      n == parse_i64(IF signed THEN Tail(s) ELSE s)
      v == IF n < 0 THEN 10 ELSE IF signed /\ s[1] = "-" THEN -n ELSE n
  IN  IF v < 1 THEN 1 ELSE IF v > 50 THEN 50 ELSE v

VARIABLES
  users,      \* rows of table users
  entries,    \* rows of table entries, in insertion (id) order
  uuidCtr,    \* number of Uuid::new_v4 values generated so far
  handlers,   \* handlers[t]: the handle_command future run by task t
  received,   \* messages dispatched so far
  applied     \* applied[u]: sum of the amount_cents of the committed add_entry calls of u

vars == <<users, entries, uuidCtr, handlers, received, applied>>

\* A free task.  overflow_checks is the build's setting as the handler's
\* arithmetic sees it; in Spec no amount text comes near the i64 range, so
\* the setting is immaterial there and stays at the debug default.  profile
\* is the sender's data in the message and now the OffsetDateTime::now_utc()
\* that ensure_user reads; Spec keeps both at their defaults, SpecEnsure
\* draws them.
Idle ==
  [pc |-> "idle", cmd |-> "", args |-> <<>>, from |-> 0, uuid |-> NoUuid,
   amount |-> 0, reason |-> <<>>, current |-> 0, moved |-> 0, total |-> 0,
   history |-> 0, items |-> <<>>, outcome |-> "none",
   overflow_checks |-> TRUE, profile |-> DefaultProfile, now |-> 0]

Row(id, user_id, amount_cents, kind) ==
  [id |-> id, user_id |-> user_id, amount_cents |-> amount_cents,
   kind |-> kind, reason |-> <<>>]

\* Db::new opens the database file of the earlier runs (create_if_missing,
\* CREATE TABLE IF NOT EXISTS): the store starts empty or with what those
\* runs committed.
InitStores ==
  { [users |-> {}, entries |-> <<>>],
    [users |-> {UserRow(1, 1, DefaultProfile, 0)},
     entries |-> << Row(1, 1, 100, "save") >>],
    [users |-> {UserRow(1, 1, DefaultProfile, 0)},
     entries |-> << Row(1, 1, 100, "save"), Row(2, 1, -100, "archive") >>],
    [users |-> {UserRow(1, 1, DefaultProfile, 0), UserRow(2, 2, DefaultProfile, 0)},
     entries |-> << Row(1, 2, 100, "save"), Row(2, 1, 100, "save"),
                    Row(3, 1, 100, "save") >>] }

Init ==
  /\ \E s \in InitStores :
       /\ users = s.users
       /\ entries = s.entries
       /\ uuidCtr = Cardinality(s.users)
       /\ applied = [u \in UuidSpace |-> SumWhereUser(s.entries, u)]
  /\ handlers = [t \in Tasks |-> Idle]
  /\ received = 0

Set(t, h) == handlers' = [handlers EXCEPT ![t] = h]

\* The handler returns (Ok or Err) and its locals are dropped: the task is
\* free for the next message.  What the user was told stays observable:
\* the outcome, and for /allinvoo the balance read and the amount moved.
Finish(h, outcome) ==
  [Idle EXCEPT !.outcome = outcome, !.current = h.current, !.moved = h.moved,
               !.overflow_checks = h.overflow_checks]

\* teloxide::repl hands a parsed command of user `from` to a free task
\* (the free task with the least index: the tasks are interchangeable).
Receive(t, c, from) ==
  /\ handlers[t].pc = "idle"
  /\ \A t2 \in Tasks : t2 < t => handlers[t2].pc # "idle"
  /\ received < MaxCmds
  /\ received' = received + 1
  /\ Set(t, [Idle EXCEPT !.pc = "ensure_select", !.cmd = c.name,
                         !.args = c.args, !.from = from])
  /\ UNCHANGED <<users, entries, uuidCtr, applied>>

\* Mutant: /save rejects only negative amounts (amount_cents < 0).
Dispatch_SaveLt(h) ==
  CASE h.cmd = "Save" ->
         LET r == parse_amount_and_reason(h.args, FALSE)
         IN  IF ~r.ok THEN Finish(h, "InvalidAmount")
             ELSE IF r.overflow /\ h.overflow_checks THEN Finish(h, "Panic")
             ELSE IF r.cents < 0
             THEN Finish(h, "InvalidEntry")
             ELSE [h EXCEPT !.pc = "add_entry", !.amount = r.cents,
                            !.reason = r.reason]
    [] h.cmd = "Adjust" ->
         LET r == parse_amount_and_reason(h.args, TRUE)
         IN  IF ~r.ok THEN Finish(h, "InvalidAmount")
             ELSE IF r.overflow /\ h.overflow_checks THEN Finish(h, "Panic")
             ELSE IF r.cents = 0
             THEN Finish(h, "InvalidEntry")
             ELSE [h EXCEPT !.pc = "add_entry", !.amount = r.cents,
                            !.reason = r.reason]
    [] h.cmd = "Allinvoo" -> [h EXCEPT !.pc = "total_cents"]
    [] h.cmd = "Query" -> [h EXCEPT !.pc = "last_entries"]

\* handle_command from the return of ensure_user up to its next store
\* round trip (or its reply): the match on cmd, the parse and the checks.
Dispatch(h) ==
  CASE h.cmd = "Save" ->
         LET r == parse_amount_and_reason(h.args, FALSE)
         IN  IF ~r.ok THEN Finish(h, "InvalidAmount")
             ELSE IF r.overflow /\ h.overflow_checks THEN Finish(h, "Panic")
             ELSE IF r.cents <= 0
             THEN Finish(h, "InvalidEntry")
             ELSE [h EXCEPT !.pc = "add_entry", !.amount = r.cents,
                            !.reason = r.reason]
    [] h.cmd = "Adjust" ->
         LET r == parse_amount_and_reason(h.args, TRUE)
         IN  IF ~r.ok THEN Finish(h, "InvalidAmount")
             ELSE IF r.overflow /\ h.overflow_checks THEN Finish(h, "Panic")
             ELSE IF r.cents = 0
             THEN Finish(h, "InvalidEntry")
             ELSE [h EXCEPT !.pc = "add_entry", !.amount = r.cents,
                            !.reason = r.reason]
    [] h.cmd = "Allinvoo" -> [h EXCEPT !.pc = "total_cents"]
    [] h.cmd = "Query" -> [h EXCEPT !.pc = "last_entries"]

\* Mutant: an upsert, which rewrites the metadata of the row it finds.
EnsureUserSelect_Upsert(t) ==
  LET h == handlers[t]
      rows == SelectUser(users, h.from)
  IN  /\ h.pc = "ensure_select"
      /\ IF rows # {}
         THEN /\ Set(t, Dispatch([h EXCEPT !.uuid = (CHOOSE r \in rows : TRUE).id]))
              /\ users' = (users \ rows)
                            \cup {UserRow(r.id, r.tg_user_id, h.profile, r.created_at) : r \in rows}
         ELSE /\ Set(t, [h EXCEPT !.pc = "ensure_insert"])
              /\ users' = users
      /\ UNCHANGED <<entries, uuidCtr, received, applied>>

\* ensure_user, first statement: SELECT id FROM users WHERE tg_user_id = ?
EnsureUserSelect(t) ==
  LET h == handlers[t]
      rows == SelectUser(users, h.from)
  IN  /\ h.pc = "ensure_select"
      /\ IF rows # {}
         THEN Set(t, Dispatch([h EXCEPT !.uuid = (CHOOSE r \in rows : TRUE).id]))
         ELSE Set(t, [h EXCEPT !.pc = "ensure_insert"])
      /\ UNCHANGED <<users, entries, uuidCtr, received, applied>>

\* Mutant: the Err of the INSERT is dropped and the handler goes on under
\* the id it generated.
EnsureUserInsert_IgnoreErr(t) ==
  LET h == handlers[t]
      id == uuidCtr + 1
  IN  /\ h.pc = "ensure_insert"
      /\ uuidCtr' = id
      /\ users' = IF UniqueOk(users, id, h.from)
                  THEN InsertUser(users, id, h.from, h.profile, h.now)
                  ELSE users
      /\ Set(t, Dispatch([h EXCEPT !.uuid = id]))
      /\ UNCHANGED <<entries, received, applied>>

\* ensure_user, second statement: Uuid::new_v4() and INSERT INTO users;
\* a constraint violation is returned as Err by `.await?`.
EnsureUserInsert(t) ==
  LET h == handlers[t]
      id == uuidCtr + 1
  IN  /\ h.pc = "ensure_insert"
      /\ uuidCtr' = id
      /\ IF UniqueOk(users, id, h.from)
         THEN /\ users' = InsertUser(users, id, h.from, h.profile, h.now)
              /\ Set(t, Dispatch([h EXCEPT !.uuid = id]))
         ELSE /\ users' = users
              /\ Set(t, Finish(h, "StorageError"))
      /\ UNCHANGED <<entries, received, applied>>

\* db.add_entry(uuid, amount_cents, "save" | "adjust", reason) of /save and /adjust
AddEntry(t) ==
  LET h == handlers[t]
      kind == IF h.cmd = "Save" THEN "save" ELSE "adjust"
  IN  /\ h.pc = "add_entry"
      /\ entries' = add_entry(entries, h.uuid, h.amount, kind, h.reason)
      /\ applied' = [applied EXCEPT ![h.uuid] = @ + h.amount]
      /\ Set(t, [h EXCEPT !.pc = "total_after"])
      /\ UNCHANGED <<users, uuidCtr, received>>

\* Mutant: the row of a failed INSERT stays in the table.
AddEntryFails_Partial(t) ==
  LET h == handlers[t]
      kind == IF h.cmd = "Save" THEN "save" ELSE "adjust"
  IN  /\ h.pc = "add_entry"
      /\ entries' = add_entry(entries, h.uuid, h.amount, kind, h.reason)
      /\ Set(t, Finish(h, "StorageError"))
      /\ UNCHANGED <<users, uuidCtr, received, applied>>

\* db.add_entry(...).await? when the store fails the INSERT (connection or
\* disk error): the statement leaves no row and the handler returns the Err.
AddEntryFails(t) ==
  LET h == handlers[t]
  IN  /\ h.pc = "add_entry"
      /\ Set(t, Finish(h, "StorageError"))
      /\ UNCHANGED <<users, entries, uuidCtr, received, applied>>

\* db.total_cents(uuid) after the append of /save and /adjust
TotalAfter(t) ==
  LET h == handlers[t]
  IN  /\ h.pc = "total_after"
      /\ Set(t, Finish([h EXCEPT !.total = total_cents(entries, h.uuid)], "Ok"))
      /\ UNCHANGED <<users, entries, uuidCtr, received, applied>>

\* /allinvoo: let current = db.total_cents(uuid); if current == 0 { reply }
AllinvooTotal(t) ==
  LET h == handlers[t]
      current == total_cents(entries, h.uuid)
  IN  /\ h.pc = "total_cents"
      /\ IF current = 0
         THEN Set(t, Finish([h EXCEPT !.current = current], "NothingToArchive"))
         ELSE Set(t, [h EXCEPT !.pc = "archive", !.current = current])
      /\ UNCHANGED <<users, entries, uuidCtr, received, applied>>

\* /allinvoo: let moved = db.archive_user_entries(uuid).await?
AllinvooArchive(t) ==
  LET h == handlers[t]
      r == archive_user_entries(entries, h.uuid)
  IN  /\ h.pc = "archive"
      /\ entries' = r.entries
      /\ IF r.ok
         THEN /\ Set(t, [h EXCEPT !.pc = "history", !.moved = r.moved])
              /\ applied' = [applied EXCEPT
                               ![h.uuid] = @ + r.entries[Len(r.entries)].amount_cents]
         ELSE /\ Set(t, Finish(h, r.err))
              /\ applied' = applied
      /\ UNCHANGED <<users, uuidCtr, received>>

\* /allinvoo: let history = db.history_total_cents(uuid)
AllinvooHistory(t) ==
  LET h == handlers[t]
  IN  /\ h.pc = "history"
      /\ Set(t, Finish([h EXCEPT !.history = history_total_cents(entries, h.uuid)],
                        "Archived"))
      /\ UNCHANGED <<users, entries, uuidCtr, received, applied>>

\* /query: let items = db.last_entries(uuid, n)
QueryLast(t) ==
  LET h == handlers[t]
  IN  /\ h.pc = "last_entries"
      /\ Set(t, [h EXCEPT !.pc = "query_total",
                          !.items = last_entries(entries, h.uuid, QueryLimit(h.args))])
      /\ UNCHANGED <<users, entries, uuidCtr, received, applied>>

\* /query: let current_total = db.total_cents(uuid)
QueryTotal(t) ==
  LET h == handlers[t]
  IN  /\ h.pc = "query_total"
      /\ Set(t, [h EXCEPT !.pc = "query_history",
                          !.total = total_cents(entries, h.uuid)])
      /\ UNCHANGED <<users, entries, uuidCtr, received, applied>>

\* /query: let history_total = db.history_total_cents(uuid)
QueryHistory(t) ==
  LET h == handlers[t]
  IN  /\ h.pc = "query_history"
      /\ Set(t, Finish([h EXCEPT !.history = history_total_cents(entries, h.uuid)],
                        "Ok"))
      /\ UNCHANGED <<users, entries, uuidCtr, received, applied>>

Next ==
  \/ \E t \in Tasks, c \in Commands, from \in TgIds : Receive(t, c, from)
  \/ \E t \in Tasks : EnsureUserSelect(t)
  \/ \E t \in Tasks : EnsureUserInsert(t)
  \/ \E t \in Tasks : AddEntry(t)
  \/ \E t \in Tasks : AddEntryFails(t)
  \/ \E t \in Tasks : TotalAfter(t)
  \/ \E t \in Tasks : AllinvooTotal(t)
  \/ \E t \in Tasks : AllinvooArchive(t)
  \/ \E t \in Tasks : AllinvooHistory(t)
  \/ \E t \in Tasks : QueryLast(t)
  \/ \E t \in Tasks : QueryTotal(t)
  \/ \E t \in Tasks : QueryHistory(t)

Spec == Init /\ [][Next]_vars

TypeOK ==
  /\ \A r \in users : /\ r.id \in UuidSpace /\ r.tg_user_id \in TgIds
                       /\ [tg_username |-> r.tg_username, first_name |-> r.first_name,
                           last_name |-> r.last_name] \in Profiles
  /\ uuidCtr \in UuidSpace
  /\ received \in 0..MaxCmds
  /\ Len(entries) <= MaxCmds + 3

\* ------------------------------------------- two /allinvoo of one user
\* Rows that /save 1 and /adjust -1 of the users 1 and 2 commit.
RaceMoves ==
  { [user_id |-> 1, amount_cents |-> 100, kind |-> "save"],
    [user_id |-> 1, amount_cents |-> -100, kind |-> "adjust"],
    [user_id |-> 2, amount_cents |-> 100, kind |-> "save"] }

MaxRaceRows == 3

Ledger(ms) ==
  [i \in 1..Len(ms) |-> Row(i, ms[i].user_id, ms[i].amount_cents, ms[i].kind)]

\* Ledgers that leave user 1 a balance B > 0.
RaceLedgers ==
  { Ledger(ms) : ms \in { m \in UNION {[1..n -> RaceMoves] : n \in 1..MaxRaceRows} :
                            SumWhereUser(Ledger(m), 1) > 0 } }

\* Every task runs /allinvoo of Telegram user 1, whose balance is B > 0.
InitRace ==
  /\ users = {UserRow(1, 1, DefaultProfile, 0), UserRow(2, 2, DefaultProfile, 0)}
  /\ entries \in RaceLedgers
  /\ uuidCtr = 2
  /\ applied = [u \in UuidSpace |-> SumWhereUser(entries, u)]
  /\ handlers = [t \in Tasks |-> [Idle EXCEPT !.pc = "ensure_select",
                                             !.cmd = "Allinvoo", !.from = 1]]
  /\ received = NTasks

NextRace ==
  \/ \E t \in Tasks : EnsureUserSelect(t)
  \/ \E t \in Tasks : AllinvooTotal(t)
  \/ \E t \in Tasks : AllinvooArchive(t)
  \/ \E t \in Tasks : AllinvooHistory(t)

SpecRace == InitRace /\ [][NextRace]_vars

\* ---------------------------------------------------------------- claims
ArchiveRows(E, u) == {i \in 1..Len(E) : E[i].user_id = u /\ E[i].kind = "archive"}

\* Sum of the rows of u that are not archive rows (in SpecRace: the balance B
\* the race starts from).
RECURSIVE NonArchiveSum(_, _)
NonArchiveSum(E, u) ==
  IF E = <<>> THEN 0
  ELSE (IF Head(E).user_id = u /\ Head(E).kind # "archive"
        THEN Head(E).amount_cents ELSE 0) + NonArchiveSum(Tail(E), u)

AllIdle == \A t \in Tasks : handlers[t].pc = "idle"

\* C1: of the concurrent /allinvoo of one user that start from a balance
\* B > 0, exactly one succeeds and moves B, every other one ends with
\* NothingToArchive; there is never a second archive row and the balance is
\* never negative.
C1_OneArchiveWins ==
  LET B == NonArchiveSum(entries, 1)
      won == {t \in Tasks : handlers[t].outcome = "Archived"}
  IN  /\ Cardinality(ArchiveRows(entries, 1)) <= 1
      /\ applied[1] >= 0
      /\ \A i \in ArchiveRows(entries, 1) : entries[i].amount_cents = -B
      /\ AllIdle =>
           /\ Cardinality(won) = 1
           /\ Cardinality(ArchiveRows(entries, 1)) = 1
           /\ applied[1] = 0
           /\ \A t \in won : handlers[t].moved = B
           /\ \A t \in Tasks \ won : handlers[t].outcome = "NothingToArchive"

\* Both finished, and the loser had read the balance B before the winner's
\* append: it lost inside archive_user_entries.
C1_Witness ==
  /\ AllIdle
  /\ \E t \in Tasks : /\ handlers[t].outcome = "NothingToArchive"
                      /\ handlers[t].current > 0

\* Task t takes the step of its handler that leaves position p.
Leaves(t, p) == handlers[t].pc = p /\ handlers'[t].pc # p

\* C2: the archive row's amount is the negation of the sum of all entries of
\* the user committed before it, whatever add_entry calls interleave with the
\* /allinvoo; the balance is 0 right after the archive row commits.
C2_ArchiveAtomic ==
  [][\A t \in Tasks :
       (Leaves(t, "archive") /\ entries' # entries) =>
          LET u == handlers[t].uuid
              e == entries'[Len(entries')]
          IN  /\ Len(entries') = Len(entries) + 1
              /\ e.kind = "archive" /\ e.user_id = u
              /\ e.amount_cents = -applied[u]
              /\ applied'[u] = 0
              /\ total_cents(entries', u) = 0]_vars

\* An add_entry of the same user committed between the handler's balance read
\* and its archive: the amount moved is not the balance the handler had read.
C2_Witness ==
  \E t \in Tasks : /\ handlers[t].pc = "history"
                   /\ handlers[t].moved # Abs(handlers[t].current)

grand_total(E, u) == total_cents(E, u) + history_total_cents(E, u)

\* C3: a successful archive leaves grand_total = current_balance +
\* history_total of the user as it was, whatever the non-zero balance.
C3_GrandTotalKept ==
  [][\A t \in Tasks :
       (Leaves(t, "archive") /\ entries' # entries) =>
          grand_total(entries', handlers[t].uuid)
            = grand_total(entries, handlers[t].uuid)]_vars

\* C4: an archive that starts from a balance B > 0 leaves the balance 0,
\* raises history_total by exactly B = moved_cents, appends exactly one
\* archive row, and an archive that follows immediately fails with
\* NothingToArchive.
C4_ArchivePost ==
  [][\A t \in Tasks :
       (Leaves(t, "archive") /\ applied[handlers[t].uuid] > 0) =>
          LET u == handlers[t].uuid
              B == applied[u]
              again == archive_user_entries(entries', u)
          IN  /\ handlers'[t].pc = "history"
              /\ handlers'[t].moved = B
              /\ applied'[u] = 0
              /\ total_cents(entries', u) = 0
              /\ history_total_cents(entries', u) = history_total_cents(entries, u) + B
              /\ Len(entries') = Len(entries) + 1
              /\ SubSeq(entries', 1, Len(entries)) = entries
              /\ entries'[Len(entries')].kind = "archive"
              /\ ~again.ok /\ again.err = "NothingToArchive"
              /\ again.entries = entries']_vars

\* An archive has just moved a positive balance on top of an earlier history.
C4_Witness ==
  \E t \in Tasks : /\ handlers[t].pc = "history"
                   /\ handlers[t].moved > 0
                   /\ entries[Len(entries)].kind = "archive"
                   /\ entries[Len(entries)].amount_cents = -handlers[t].moved
                   /\ history_total_cents(entries, handlers[t].uuid) > handlers[t].moved

\* C5: an ensure_user call that races with another first contact of the same
\* external id still returns successfully, with the id of the row that won.
C5_EnsureUserRaceOk ==
  [][\A t \in Tasks :
       Leaves(t, "ensure_insert") =>
          /\ handlers'[t].outcome # "StorageError"
          /\ handlers'[t].pc # "idle" =>
               \A r \in users' :
                  r.tg_user_id = handlers[t].from => handlers'[t].uuid = r.id]_vars

\* C6: the users table never holds two rows of one external id, and a row,
\* once inserted, keeps its id (no row is changed or removed).
C6_OneRowPerExternalId ==
  /\ [](\A r1 \in users : \A r2 \in users :
          r1.tg_user_id = r2.tg_user_id => r1 = r2)
  /\ [][\A r \in users : r \in users']_vars

\* An INSERT of a racing first contact was refused; the winner's row is there.
C6_Witness ==
  \E t \in Tasks : /\ handlers[t].outcome = "StorageError"
                   /\ users # {}
                   /\ uuidCtr > Cardinality(users)

UsersOf(E) == {E[i].user_id : i \in 1..Len(E)}

\* C7: current_balance(u) is the exact signed sum of the amounts of the
\* committed entries of u, in whatever order the commits of all users
\* interleave; it is 0 for a user without entries.
C7_BalanceIsSum ==
  \A u \in UuidSpace :
     /\ total_cents(entries, u) = applied[u]
     /\ u \notin UsersOf(entries) => total_cents(entries, u) = 0

\* Entries of two users interleaved, of both signs.
C7_Witness ==
  /\ Cardinality(UsersOf(entries)) = 2
  /\ \E i \in 1..Len(entries) : \E j \in 1..Len(entries) : \E k \in 1..Len(entries) :
        /\ i < j /\ j < k
        /\ entries[i].user_id = entries[k].user_id
        /\ entries[j].user_id # entries[i].user_id
        /\ entries[j].amount_cents < 0

\* The rule of add_entry: save needs amount_cents > 0, adjust amount_cents # 0.
ValidEntry(kind, amount_cents) ==
  \/ kind = "save" /\ amount_cents > 0
  \/ kind = "adjust" /\ amount_cents # 0

KindOf(cmd) == IF cmd = "Save" THEN "save" ELSE "adjust"

\* C8: a /save or /adjust whose amount breaks the rule of its kind is
\* rejected with InvalidEntry and appends nothing; every other one appends
\* exactly one entry, which changes the balance by exactly amount_cents
\* (unless the store itself fails the INSERT, which is a storage error).
C8_AddEntryRule ==
  [][\A t \in Tasks :
       LET h == handlers[t]
           r == parse_amount_and_reason(h.args, h.cmd = "Adjust")
       IN  /\ ( /\ h.cmd \in {"Save", "Adjust"}
                /\ h.pc \in {"ensure_select", "ensure_insert"}
                /\ handlers'[t].pc \notin {"ensure_select", "ensure_insert"}
                /\ handlers'[t].outcome # "StorageError"
                /\ r.ok ) =>
               IF ValidEntry(KindOf(h.cmd), r.cents)
               THEN /\ handlers'[t].pc = "add_entry"
                    /\ handlers'[t].amount = r.cents
               ELSE /\ handlers'[t].pc = "idle"
                    /\ handlers'[t].outcome = "InvalidEntry"
                    /\ entries' = entries
           /\ Leaves(t, "add_entry") => ValidEntry(KindOf(h.cmd), h.amount)
           /\ (Leaves(t, "add_entry") /\ handlers'[t].pc = "idle") =>
                /\ handlers'[t].outcome = "StorageError"
                /\ entries' = entries
           /\ (Leaves(t, "add_entry") /\ handlers'[t].pc # "idle") =>
                /\ handlers'[t].pc = "total_after"
                /\ Len(entries') = Len(entries) + 1
                /\ SubSeq(entries', 1, Len(entries)) = entries
                /\ entries'[Len(entries')].amount_cents = h.amount
                /\ entries'[Len(entries')].kind = KindOf(h.cmd)
                /\ total_cents(entries', h.uuid) = total_cents(entries, h.uuid) + h.amount
                /\ \A u \in UuidSpace \ {h.uuid} :
                      total_cents(entries', u) = total_cents(entries, u)]_vars

\* One command was rejected with InvalidEntry and another one appended.
C8_Witness ==
  /\ \E t \in Tasks : handlers[t].outcome = "InvalidEntry"
  /\ \E t \in Tasks : handlers[t].pc = "total_after" /\ handlers[t].cmd = "Adjust"

\* C9: an archive of a user whose balance is 0 ends with NothingToArchive and
\* changes nothing in the store: no row is written, so the balance and the
\* history total stay as they are, however often it is retried.
C9_NothingToArchiveNoOp ==
  [][\A t \in Tasks :
       LET h == handlers[t]
       IN  ( /\ h.pc \in {"total_cents", "archive"}
             /\ handlers'[t] # h
             /\ applied[h.uuid] = 0 ) =>
               /\ handlers'[t].pc = "idle"
               /\ handlers'[t].outcome = "NothingToArchive"
               /\ handlers'[t].moved = 0
               /\ entries' = entries
               /\ users' = users
               /\ history_total_cents(entries', h.uuid) = history_total_cents(entries, h.uuid)]_vars

\* Two /allinvoo of a user with an earlier archive both ended NothingToArchive.
C9_Witness ==
  /\ \A t \in Tasks : /\ handlers[t].pc = "idle"
                      /\ handlers[t].outcome = "NothingToArchive"
                      /\ handlers[t].current = 0
  /\ received >= 2
  /\ \E i \in 1..Len(entries) : entries[i].kind = "archive"

\* Balance of the owner of row i just before row i was appended.
BalanceBefore(E, i) == SumWhereUser(SubSeq(E, 1, i - 1), E[i].user_id)

\* C10: every stored entry obeys the rule of its kind: save > 0, adjust # 0,
\* archive < 0 with the magnitude of the balance it cleared.
C10_EntryKindRules ==
  \A i \in 1..Len(entries) :
     LET e == entries[i]
     IN  /\ e.kind = "save" => e.amount_cents > 0
         /\ e.kind = "adjust" => e.amount_cents # 0
         /\ e.kind = "archive" =>
              /\ e.amount_cents < 0
              /\ Abs(e.amount_cents) = BalanceBefore(entries, i)

\* C11: the ledger is append-only: every step leaves each committed entry
\* in place and unchanged, and an appended entry gets an id greater than
\* every id already there.
C11_AppendOnly ==
  [][/\ Len(entries') >= Len(entries)
     /\ SubSeq(entries', 1, Len(entries)) = entries
     /\ \A j \in (Len(entries) + 1)..Len(entries') :
           \A i \in 1..Len(entries) : entries'[j].id > entries[i].id]_vars

\* Two rows were appended on top of the rows of the earlier runs: one by an
\* add_entry, then one by an archive.
C11_Witness ==
  /\ Len(entries) >= 4
  /\ entries[Len(entries)].kind = "archive"
  /\ entries[Len(entries) - 1].kind \in {"save", "adjust"}
  /\ entries[Len(entries) - 2].kind = "archive"

\* The input of handler h is rejected: its amount text does not parse, or the
\* amount breaks the rule of its kind.
Rejected(h) ==
  /\ h.cmd \in {"Save", "Adjust"}
  /\ LET r == parse_amount_and_reason(h.args, h.cmd = "Adjust")
     IN  ~r.ok \/ ~ValidEntry(KindOf(h.cmd), r.cents)

InputErrors == {"InvalidAmount", "InvalidEntry"}

\* C12 as stated: the step that ends a command with an input error, and so
\* the command, leaves the store as it was: no entry and no user row added.
C12_RejectedNoChange ==
  [][\A t \in Tasks :
       ( /\ handlers[t].pc # "idle"
         /\ handlers'[t].pc = "idle"
         /\ handlers'[t].outcome \in InputErrors ) =>
            /\ entries' = entries
            /\ users' = users]_vars

\* C12 as amended: no step of a command whose input is rejected adds or
\* changes an entry or changes an existing user row; the one change it can
\* make is the insertion of the sender's user row on first contact, and the
\* command ends with an input error unless ensure_user failed.
C12_RejectedNoEntry ==
  [][\A t \in Tasks :
       LET h == handlers[t]
       IN  (h.pc # "idle" /\ handlers'[t] # h /\ Rejected(h)) =>
             /\ entries' = entries
             /\ users \subseteq users'
             /\ \A r \in users' \ users :
                   /\ r.tg_user_id = h.from
                   /\ SelectUser(users, h.from) = {}
             /\ Cardinality(users' \ users) <= 1
             /\ handlers'[t].pc \in {"idle", "ensure_insert"}
             /\ handlers'[t].pc = "idle" =>
                   handlers'[t].outcome \in InputErrors \cup {"StorageError"}]_vars

\* The first command of a new user was rejected: the ledger is still empty,
\* but the user's row is there.
C12_Witness ==
  /\ entries = <<>>
  /\ received = 1
  /\ Cardinality(users) = 1
  /\ \E t \in Tasks : handlers[t].pc = "idle" /\ handlers[t].outcome \in InputErrors

\* --------------------------------------------------- the amount parser
\* Amount texts: sign, whole part, fraction, trailing text.
ParseSigns == { <<>>, <<"+">>, <<"-">> }
ParseWholes == { <<>>, <<"0">>, <<"1", "2">>, <<"3", "2", "7">>, <<"3", "2", "8">>,
                 <<"3", "2", "7", "6", "8">> }
ParseFracs == { <<>>, <<".", "3">>, <<".", "3", "4">>, <<".", "3", "4", "5">>,
                <<",", "6", "7">>, <<".", "6", "8">> }
ParseTails == { <<>>, <<" ", "x">> }

ParseTexts ==
  { sg \o w \o f \o tl : sg \in ParseSigns, w \in ParseWholes,
                         f \in ParseFracs, tl \in ParseTails }

\* Task 1 handles one /save or /adjust of the registered user 1 with an
\* amount text of ParseTexts, in a build with or without overflow checks.
InitParse ==
  /\ users = {UserRow(1, 1, DefaultProfile, 0)}
  /\ entries = <<>>
  /\ uuidCtr = 1
  /\ applied = [u \in UuidSpace |-> 0]
  /\ received = 1
  /\ \E c \in {"Save", "Adjust"}, a \in ParseTexts, oc \in BOOLEAN :
        handlers = [t \in Tasks |->
                      IF t = 1
                      THEN [Idle EXCEPT !.pc = "ensure_select", !.cmd = c, !.args = a,
                                        !.from = 1, !.overflow_checks = oc]
                      ELSE Idle]

NextParse ==
  \/ \E t \in Tasks : EnsureUserSelect(t)
  \/ \E t \in Tasks : AddEntry(t)
  \/ \E t \in Tasks : TotalAfter(t)

SpecParse == InitParse /\ [][NextParse]_vars

\* The leading numeric token of a text, read by the grammar of the amount
\* text: its sign, its whole digits and the digits after its separator.
TokenSign(text) ==
  LET s == Trim(text) IN IF s # <<>> /\ s[1] \in {"+", "-"} THEN 1 ELSE 0

TokenWholeDigits(text) == DigitRun(Trim(text), TokenSign(text) + 1)

TokenFracDigits(text) ==
  LET s == Trim(text)
      p == TokenSign(text) + TokenWholeDigits(text) + 1
  IN  IF p <= Len(s) /\ s[p] \in {".", ","} THEN DigitRun(s, p + 1) ELSE 0

\* Value of a text of digits, without any width.
RECURSIVE DigitsValue(_)
DigitsValue(ds) ==
  IF ds = <<>> THEN 0 ELSE DigitsValue(SubSeq(ds, 1, Len(ds) - 1)) * 10 + DigitVal(ds[Len(ds)])

\* A token the grammar accepts: digits, then nothing or 1 or 2 fraction digits.
TokenWellFormed(text, allow_signed) ==
  /\ TokenWholeDigits(text) >= 1
  /\ TokenWholeDigits(text) <= 5
  /\ TokenFracDigits(text) <= 2
  /\ TokenSign(text) = 1 => allow_signed
  /\ LET s == Trim(text)
         p == TokenSign(text) + TokenWholeDigits(text) + 1
     IN  (p <= Len(s) /\ s[p] \in {".", ","}) => TokenFracDigits(text) >= 1

\* whole*100 + frac with the sign applied last, as an exact integer.
ExactCents(text) ==
  LET s == Trim(text)
      sg == TokenSign(text)
      nw == TokenWholeDigits(text)
      nf == TokenFracDigits(text)
      whole == DigitsValue(SubSeq(s, sg + 1, sg + nw))
      fr == SubSeq(s, sg + nw + 2, sg + nw + 1 + nf)
      frac == IF nf = 0 THEN 0
              ELSE IF nf = 1 THEN DigitVal(fr[1]) * 10
              ELSE DigitsValue(fr)
      v == whole * 100 + frac
  IN  IF sg = 1 /\ s[1] = "-" THEN -v ELSE v

InI64(v) == v >= -(I64Max + 1) /\ v <= I64Max

\* Handler t runs the parse in this step (it follows the return of ensure_user).
Parses(t) ==
  /\ handlers[t].cmd \in {"Save", "Adjust"}
  /\ handlers[t].pc \in {"ensure_select", "ensure_insert"}
  /\ handlers'[t].pc \notin {"ensure_select", "ensure_insert"}
  /\ handlers'[t].outcome # "StorageError"

\* C13: the parse fails for every text whose leading numeric token has more
\* than 2 fractional digits, with and without allow_signed.
C13_ThreeFracDigitsFail ==
  [][\A t \in Tasks :
       (Parses(t) /\ TokenFracDigits(handlers[t].args) > 2) =>
          /\ handlers'[t].pc = "idle"
          /\ handlers'[t].outcome = "InvalidAmount"]_vars

\* C14: the parse fails for every amount text whose exact value in cents is
\* outside the i64 range; it neither goes on with another value nor panics.
C14_OverflowFails ==
  [][\A t \in Tasks :
       LET h == handlers[t]
       IN  ( /\ Parses(t)
             /\ TokenWellFormed(h.args, h.cmd = "Adjust")
             /\ ~InI64(ExactCents(h.args)) ) =>
               /\ handlers'[t].pc = "idle"
               /\ handlers'[t].outcome = "InvalidAmount"]_vars

\* ------------------------------------------------------------- /query
QueryTexts == { <<>>, <<"0">>, <<"1">>, <<"2">>, <<"9", "9">>, <<"-", "3">>, <<"x">> }

\* Ledgers of up to MaxRaceRows rows of the users 1 and 2.
QueryLedgers ==
  { Ledger(ms) : ms \in UNION {[1..n -> RaceMoves] : n \in 0..MaxRaceRows} }

\* Task 1 handles one /query of user 1 or 2 over such a ledger.
InitQuery ==
  /\ users = {UserRow(1, 1, DefaultProfile, 0), UserRow(2, 2, DefaultProfile, 0)}
  /\ entries \in QueryLedgers
  /\ uuidCtr = 2
  /\ applied = [u \in UuidSpace |-> SumWhereUser(entries, u)]
  /\ received = 1
  /\ \E a \in QueryTexts, from \in TgIds :
        handlers = [t \in Tasks |->
                      IF t = 1
                      THEN [Idle EXCEPT !.pc = "ensure_select", !.cmd = "Query",
                                        !.args = a, !.from = from]
                      ELSE Idle]

NextQuery ==
  \/ \E t \in Tasks : EnsureUserSelect(t)
  \/ \E t \in Tasks : QueryLast(t)
  \/ \E t \in Tasks : QueryTotal(t)
  \/ \E t \in Tasks : QueryHistory(t)

SpecQuery == InitQuery /\ [][NextQuery]_vars

RowsOf(E, u) == {i \in 1..Len(E) : E[i].user_id = u}

\* C15: recent_entries(u, limit) returns at most limit entries, all of u, in
\* strictly descending id order: the limit entries of u with the greatest
\* ids, or all entries of u when there are fewer.
C15_RecentEntries ==
  [][\A t \in Tasks :
       Leaves(t, "last_entries") =>
          LET u == handlers[t].uuid
              limit == QueryLimit(handlers[t].args)
              items == handlers'[t].items
              n == Cardinality(RowsOf(entries, u))
          IN  /\ limit >= 1 /\ limit <= 50
              /\ Len(items) = (IF n < limit THEN n ELSE limit)
              /\ \A k \in 1..Len(items) :
                    /\ items[k].user_id = u
                    /\ \E i \in RowsOf(entries, u) : entries[i] = items[k]
              /\ \A k \in 1..(Len(items) - 1) : items[k].id > items[k + 1].id
              /\ \A i \in RowsOf(entries, u) :
                    \/ \E k \in 1..Len(items) : items[k] = entries[i]
                    \/ \A k \in 1..Len(items) : items[k].id > entries[i].id]_vars

\* A listing of 2 entries of a user who has 3.
C15_Witness ==
  \E t \in Tasks :
     /\ handlers[t].pc = "query_total"
     /\ Len(handlers[t].items) = 2
     /\ Cardinality(RowsOf(entries, handlers[t].uuid)) = 3

\* --------------------------------------------------------- ensure_user
\* The users table of the earlier runs: empty, or the row of Telegram user 1
\* with some profile.
EnsureStores == { {} } \cup { {UserRow(1, 1, p, 0)} : p \in Profiles }

EnsureNows == {1, 2}

\* Every task handles a /query of user 1 or 2, whose message carries some
\* profile, at some time.
InitEnsure ==
  /\ users \in EnsureStores
  /\ entries = <<>>
  /\ uuidCtr = Cardinality(users)
  /\ applied = [u \in UuidSpace |-> 0]
  /\ received = NTasks
  /\ handlers \in [Tasks -> { [Idle EXCEPT !.pc = "ensure_select", !.cmd = "Query",
                                          !.args = <<"1">>, !.from = from,
                                          !.profile = p, !.now = n] :
                               from \in TgIds, p \in Profiles, n \in EnsureNows }]

NextEnsure ==
  \/ \E t \in Tasks : EnsureUserSelect(t)
  \/ \E t \in Tasks : EnsureUserInsert(t)

SpecEnsure == InitEnsure /\ [][NextEnsure]_vars

\* C16: ensure_user with an external id that has a row returns the id of
\* that row and leaves the table as it is: the row keeps its username,
\* first_name, last_name and created_at whatever the call supplies, and no
\* row is added.
C16_EnsureExistingKeepsRow ==
  [][\A t \in Tasks :
       (Leaves(t, "ensure_select") /\ SelectUser(users, handlers[t].from) # {}) =>
          /\ users' = users
          /\ handlers'[t].pc # "ensure_insert"
          /\ \A r \in SelectUser(users, handlers[t].from) : handlers'[t].uuid = r.id]_vars

\* ensure_user returned the id of a row whose metadata and creation time
\* differ from what the call supplied.
C16_Witness ==
  \E t \in Tasks : \E r \in users :
     /\ handlers[t].pc = "last_entries"
     /\ handlers[t].uuid = r.id
     /\ r.tg_user_id = handlers[t].from
     /\ r.tg_username # handlers[t].profile.tg_username
     /\ r.first_name # handlers[t].profile.first_name
     /\ r.created_at # handlers[t].now

\* Handler t is archiving: it has read the balance of its user for /allinvoo
\* (main.rs:166) and has not yet made the append (main.rs:174).
Archiving(t) == handlers[t].cmd = "Allinvoo" /\ handlers[t].pc = "archive"

\* C17: at most one archive operation per user is in the archiving state:
\* never are two of them both between their balance read and their append.
C17_OneArchiving ==
  \A t1 \in Tasks : \A t2 \in Tasks :
     (Archiving(t1) /\ Archiving(t2) /\ handlers[t1].uuid = handlers[t2].uuid) => t1 = t2

\* C18: every balance a handler reads is the sum of the entries of the user
\* in a prefix of their commit order, namely of all that have committed when
\* the read runs: each append is seen whole or not at all, and an append
\* that failed is never seen.
C18_ReadsSeeCommitted ==
  [][\A t \in Tasks :
       LET u == handlers[t].uuid
       IN  /\ Leaves(t, "total_cents") =>
                /\ handlers'[t].current = applied[u]
                /\ handlers'[t].current = SumWhereUser(entries', u)
           /\ Leaves(t, "query_total") =>
                /\ handlers'[t].total = applied[u]
                /\ handlers'[t].total = SumWhereUser(entries', u)]_vars

\* A /query holds a balance that an append of the same user has since
\* changed: it saw the ledger before that append, whole.
C18_Witness ==
  \E t \in Tasks :
     /\ handlers[t].pc = "query_history"
     /\ handlers[t].total # 0
     /\ handlers[t].total # applied[handlers[t].uuid]

\* ------------------------------------------------------ user independence
\* The user a step of task t works for: the id ensure_user resolved, before
\* or in this step.
OwnerOf(t) ==
  IF handlers[t].uuid # NoUuid THEN handlers[t].uuid ELSE handlers'[t].uuid

\* The ledger operations: the pcs at which a handler is about to run
\* add_entry, the archive, or one of the queries.
LedgerPcs ==
  {"add_entry", "total_after", "total_cents", "archive", "history",
   "last_entries", "query_total", "query_history"}

\* The next ledger operation of the handler of task t.
LedgerStep(t) ==
  \/ AddEntry(t) \/ AddEntryFails(t) \/ TotalAfter(t)
  \/ AllinvooTotal(t) \/ AllinvooArchive(t) \/ AllinvooHistory(t)
  \/ QueryLast(t) \/ QueryTotal(t) \/ QueryHistory(t)

UserIds(U) == {r.id : r \in U}

\* C20: every entry's user_id is the id of an existing user row; a handler
\* runs its ledger operations only under the id a successful ensure_user
\* returned, and a handler whose ensure_user failed appends nothing.
C20_EntriesHaveUser ==
  /\ [](/\ \A i \in 1..Len(entries) : entries[i].user_id \in UserIds(users)
        /\ \A t \in Tasks :
              handlers[t].pc \in LedgerPcs =>
                 /\ handlers[t].uuid \in UserIds(users)
                 /\ SelectUser(users, handlers[t].from)
                      = {r \in users : r.id = handlers[t].uuid})
  /\ [][/\ UserIds(users) \subseteq UserIds(users')
        /\ \A t \in Tasks :
              /\ ( /\ handlers[t].pc \in {"ensure_select", "ensure_insert"}
                   /\ handlers'[t].pc = "idle"
                   /\ handlers'[t].outcome = "StorageError" ) =>
                     entries' = entries
              /\ ( handlers'[t] # handlers[t] /\ entries' # entries ) =>
                     /\ handlers[t].pc \in {"add_entry", "archive"}
                     /\ entries'[Len(entries')].user_id = handlers[t].uuid]_vars

\* Two first commands of one new user raced: the INSERT of one handler
\* failed, the other handler has appended under the id of the row it made.
C20_Witness ==
  \E t \in Tasks : \E t2 \in Tasks :
     /\ handlers[t].pc = "total_after"
     /\ handlers[t2].pc = "idle" /\ handlers[t2].outcome = "StorageError"
     /\ entries # <<>>
     /\ entries[Len(entries)].user_id = handlers[t].uuid
     /\ handlers[t].uuid = uuidCtr - 1
     /\ Cardinality(users) < uuidCtr

====
